---------------------------- MODULE Spec2Model ----------------------------
(***************************************************************************)
(* A model of the StopSpot data pipeline's command-line dispatcher         *)
(* (pipeline/src/interface/ArgInterface.py) and of its table gateways      *)
(* (src/tables/table.py, processed_days.py, flagged_data.py).              *)
(*                                                                         *)
(* Python values are tagged records ([tag |-> "None"], [tag |-> "str",     *)
(* v |-> ...]) so that values of different Python types can be told apart. *)
(* Strings are TLA+ strings, read character by character with SubSeq.      *)
(***************************************************************************)
EXTENDS Integers, Sequences, FiniteSets, TLC

VARIABLES
    \* ---- ArgInterface.query_with_args ----
    args,       \* the argument list handed to query_with_args
    argsGiven,  \* FALSE when None was handed over instead of a list
    pc,         \* position inside query_with_args
    ns,         \* the argparse namespace once parsing succeeded
    status,     \* "running" | "returned" | "exit2" | "raised"
    cause,      \* why the run ended
    result,     \* the value query_with_args returned
    calls,      \* the collaborator calls made so far, in order
    \* ---- Processed_Days._get_date_range ----
    drDay, drEnd, drPc, drResult,
    \* ---- Processed_Days insert / delete / get_latest_day ----
    stored,     \* the dates held by the processed_days table
    pdOp, pdDay, pdEnd, pdDbUp, pdResult,
    pdBefore,   \* the dates held before the last operation
    \* ---- Table.get_full_table ----
    tbStore, tbLive, tbReadOk, tbPc, tbResult,
    \* ---- Table.create_table ----
    ctStore,    \* the concrete store create_table is called on
    ctEngine,   \* FALSE when self._engine is None
    ctPc,       \* position inside create_table
    ctExecuted, \* the statements this call handed to conn.execute, in order
    ctSchemaRet,\* what create_schema returned to create_table
    ctResult,   \* what create_table returned
    ctCount,    \* calls of create_table started so far
    dbSchema,   \* whether the schema exists in the database
    dbTables    \* the stores whose table exists in the database

cliVars   == <<args, argsGiven, pc, ns, status, cause, result, calls>>
dateVars  == <<drDay, drEnd, drPc, drResult>>
storeVars == <<stored, pdOp, pdDay, pdEnd, pdDbUp, pdResult, pdBefore>>
tableVars == <<tbStore, tbLive, tbReadOk, tbPc, tbResult>>
createVars == <<ctStore, ctEngine, ctPc, ctExecuted, ctSchemaRet, ctResult,
                ctCount, dbSchema, dbTables>>
vars      == <<cliVars, dateVars, storeVars, tableVars, createVars>>

-----------------------------------------------------------------------------
(* Bounds of the model. *)

\* The longest argument list handed to query_with_args.
MaxArgs == 4
\* Input dates run from each base date to MaxOffset days after it.
MaxOffset == 3
\* Flag ids the external catalog may resolve a name to: 0 .. MaxFlagId.
MaxFlagId == 1

-----------------------------------------------------------------------------
(* Python values. *)

PyNone      == [tag |-> "None"]
PyStr(s)    == [tag |-> "str", v |-> s]
PyInt(n)    == [tag |-> "int", v |-> n]
PyBool(b)   == [tag |-> "bool", v |-> b]
PyList(l)   == [tag |-> "list", v |-> l]
PySet(s)    == [tag |-> "set", v |-> s]
PyRaise(e)  == [tag |-> "raise", exc |-> e]
\* datetime.date(y, m, d) and datetime.datetime(y, m, d, 0, 0)
PyDate(k, y, m, d) == [tag |-> k, y |-> y, m |-> m, d |-> d]

IsDateLike(x) == x.tag \in {"date", "datetime"}

-----------------------------------------------------------------------------
(* Strings. *)

Digits == "0123456789"

CharAt(s, i) == SubSeq(s, i, i)

StartsWith(s, p) == Len(p) <= Len(s) /\ SubSeq(s, 1, Len(p)) = p

IsDigit(c) == \E i \in 1..10 : CharAt(Digits, i) = c

DigitVal(c) == (CHOOSE i \in 1..10 : CharAt(Digits, i) = c) - 1

AllDigits(s) == Len(s) > 0 /\ \A i \in 1..Len(s) : IsDigit(CharAt(s, i))

RECURSIVE NatOf(_)
NatOf(s) == IF Len(s) = 0 THEN 0
            ELSE 10 * NatOf(SubSeq(s, 1, Len(s) - 1)) + DigitVal(CharAt(s, Len(s)))

\* The first position of character c in s, or 0.
IndexOf(s, c) ==
    IF \E i \in 1..Len(s) : CharAt(s, i) = c
    THEN CHOOSE i \in 1..Len(s) :
            CharAt(s, i) = c /\ \A j \in 1..(i - 1) : CharAt(s, j) # c
    ELSE 0

RECURSIVE NatStr(_)
NatStr(n) == IF n < 10 THEN CharAt(Digits, n + 1)
             ELSE NatStr(n \div 10) \o CharAt(Digits, (n % 10) + 1)

\* str(n) of Python, for the integers the model meets
Str(n) == IF n < 0 THEN "-" \o NatStr(0 - n) ELSE NatStr(n)

Pad2(n) == IF n < 10 THEN "0" \o NatStr(n) ELSE NatStr(n)

\* int(s): an optional sign and decimal digits; anything else is a
\* ValueError, given as PyNone.
IntOf(s) ==
    IF AllDigits(s) THEN PyInt(NatOf(s))
    ELSE IF Len(s) > 1 /\ CharAt(s, 1) = "-" /\ AllDigits(SubSeq(s, 2, Len(s)))
         THEN PyInt(0 - NatOf(SubSeq(s, 2, Len(s))))
    ELSE IF Len(s) > 1 /\ CharAt(s, 1) = "+" /\ AllDigits(SubSeq(s, 2, Len(s)))
         THEN PyInt(NatOf(SubSeq(s, 2, Len(s))))
    ELSE PyNone

-----------------------------------------------------------------------------
(* Calendar dates: datetime.date, datetime.timedelta(days=1), strptime. *)

IsLeap(y) == (y % 4 = 0 /\ y % 100 # 0) \/ y % 400 = 0

DaysInMonth(y, m) ==
    IF m = 2 THEN (IF IsLeap(y) THEN 29 ELSE 28)
    ELSE IF m \in {4, 6, 9, 11} THEN 30 ELSE 31

\* x + timedelta(days=1); the result has x's type
NextDay(x) ==
    IF x.d < DaysInMonth(x.y, x.m) THEN [x EXCEPT !.d = x.d + 1]
    ELSE IF x.m < 12 THEN [x EXCEPT !.m = x.m + 1, !.d = 1]
    ELSE [x EXCEPT !.y = x.y + 1, !.m = 1, !.d = 1]

RECURSIVE AddDays(_, _)
AddDays(x, k) == IF k = 0 THEN x ELSE AddDays(NextDay(x), k - 1)

\* a < b on two values of the same type
DateLess(a, b) ==
    \/ a.y < b.y
    \/ a.y = b.y /\ a.m < b.m
    \/ a.y = b.y /\ a.m = b.m /\ a.d < b.d

\* datetime.strptime(s, "%Y"): exactly four digits, year 1..9999.
\* A ValueError is given as PyNone.
StrptimeYear(s) ==
    IF Len(s) = 4 /\ AllDigits(s) /\ NatOf(s) >= 1
    THEN PyDate("datetime", NatOf(s), 1, 1)
    ELSE PyNone

\* datetime.strptime(s, "%Y-%m-%d"): a four-digit year, a month and a day
\* of one or two digits each, and the day must exist in the month.
\* A ValueError is given as PyNone.
StrptimeDate(s) ==
    LET i  == IndexOf(s, "-")
        r  == SubSeq(s, i + 1, Len(s))
        j  == IndexOf(r, "-")
        ys == SubSeq(s, 1, i - 1)
        ms == SubSeq(r, 1, j - 1)
        ds == SubSeq(r, j + 1, Len(r))
    IN  IF /\ i > 0 /\ j > 0
           /\ Len(ys) = 4 /\ AllDigits(ys) /\ NatOf(ys) >= 1
           /\ Len(ms) \in {1, 2} /\ AllDigits(ms) /\ NatOf(ms) \in 1..12
           /\ Len(ds) \in {1, 2} /\ AllDigits(ds)
           /\ NatOf(ds) \in 1..DaysInMonth(NatOf(ys), NatOf(ms))
        THEN PyDate("datetime", NatOf(ys), NatOf(ms), NatOf(ds))
        ELSE PyNone

\* "%Y-%m-%d" text of a date, as a caller would write it
IsoText(x) == NatStr(x.y) \o "-" \o Pad2(x.m) \o "-" \o Pad2(x.d)

-----------------------------------------------------------------------------
(* Processed_Days._get_date_range *)

RECURSIVE DateLoop(_, _, _)
\* while curr_date < end_date: dates.append(curr_date); curr_date += delta
DateLoop(curr, endDate, dates) ==
    IF DateLess(curr, endDate)
    THEN DateLoop(NextDay(curr), endDate, Append(dates, curr))
    ELSE dates

\* after the loop: dates.append(end_date), whatever the loop did
DateRangeTail(dates, endDate) == Append(dates, endDate)

\* day and end_date are PyStr or date values; end_date may be PyNone.
\* Returns PyList(dates), PyNone (a ValueError was caught) or
\* PyRaise("TypeError") (a date compared with a datetime: not caught).
GetDateRange(day, endDate) ==
    LET first == IF IsDateLike(day) THEN day ELSE StrptimeDate(day.v)
        last  == IF endDate.tag = "None" \/ IsDateLike(endDate) THEN endDate
                 ELSE StrptimeDate(endDate.v)
    IN  IF first.tag = "None" THEN PyNone
        ELSE IF endDate.tag = "None" THEN PyList(<<first>>)
        ELSE IF last.tag = "None" THEN PyNone
        ELSE IF first.tag # last.tag THEN PyRaise("TypeError")
        ELSE PyList(DateRangeTail(DateLoop(NextDay(first), last, <<first>>), last))


-----------------------------------------------------------------------------
(* The inputs of the date operations. *)

BaseDates == { PyDate("date", 2019, 12, 30), PyDate("date", 2020, 2, 27) }

\* datetime.date objects around a year end and around a leap day
DateObjs == { AddDays(b, k) : b \in BaseDates, k \in 0..MaxOffset }

\* the same dates written as "YYYY-MM-DD" text
DateTexts == { PyStr(IsoText(x)) : x \in DateObjs }

\* text that strptime("%Y-%m-%d") rejects
MalformedTexts == { PyStr("2020/01/01"), PyStr("2020-02-30"), PyStr("yesterday") }

-----------------------------------------------------------------------------
(* The five parts of the model; a specification runs one and idles the rest. *)

IdleCli ==
    /\ args = <<>> /\ argsGiven = TRUE /\ pc = "idle" /\ ns = <<>> /\ status = "idle"
    /\ cause = "" /\ result = PyNone /\ calls = <<>>

IdleDates ==
    /\ drDay = PyNone /\ drEnd = PyNone /\ drPc = "idle" /\ drResult = PyNone

IdleStore ==
    /\ stored = {} /\ pdOp = "idle" /\ pdDay = PyNone /\ pdEnd = PyNone
    /\ pdDbUp = TRUE /\ pdResult = PyNone /\ pdBefore = {}

IdleTable ==
    /\ tbStore = "" /\ tbLive = {} /\ tbReadOk = TRUE /\ tbPc = "idle"
    /\ tbResult = PyNone

IdleCreate ==
    /\ ctStore = "" /\ ctEngine = TRUE /\ ctPc = "idle" /\ ctExecuted = <<>>
    /\ ctSchemaRet = PyNone /\ ctResult = PyNone /\ ctCount = 0
    /\ dbSchema = FALSE /\ dbTables = {}

-----------------------------------------------------------------------------
(* SpecDates: _get_date_range called on every pair of inputs. *)

InitDates ==
    /\ \/ drDay \in DateObjs
       \/ drDay \in DateTexts
       \/ drDay \in MalformedTexts
    /\ \/ drEnd \in DateObjs
       \/ drEnd \in DateTexts
       \/ drEnd \in MalformedTexts
       \/ drEnd = PyNone
    /\ drPc = "call"
    /\ drResult = PyNone
    /\ IdleCli /\ IdleStore /\ IdleTable /\ IdleCreate

CallGetDateRange ==
    /\ drPc = "call"
    /\ drResult' = GetDateRange(drDay, drEnd)
    /\ drPc' = "done"
    /\ UNCHANGED <<drDay, drEnd, cliVars, storeVars, tableVars, createVars>>

NextDates == CallGetDateRange

SpecDates == InitDates /\ [][NextDates]_vars

-----------------------------------------------------------------------------
(* Reading a date range: what the claims about _get_date_range speak of. *)

\* the calendar date an input stands for, whatever its representation
AsDate(x) == IF IsDateLike(x) THEN x ELSE StrptimeDate(x.v)

WellFormed(x) == x.tag # "None" /\ AsDate(x).tag # "None"

\* the two inputs are well formed and given in the same representation
ValidPair(day, endDate) ==
    /\ WellFormed(day) /\ WellFormed(endDate)
    /\ AsDate(day).tag = AsDate(endDate).tag

RECURSIVE DaysBeforeYear(_)
DaysBeforeYear(y) ==
    IF y <= 2019 THEN 0
    ELSE DaysBeforeYear(y - 1) + (IF IsLeap(y - 1) THEN 366 ELSE 365)

RECURSIVE DaysBeforeMonth(_, _)
DaysBeforeMonth(y, m) ==
    IF m <= 1 THEN 0 ELSE DaysBeforeMonth(y, m - 1) + DaysInMonth(y, m - 1)

\* days since 2019-01-01: (x - date(2019, 1, 1)).days
DayNumber(x) == DaysBeforeYear(x.y) + DaysBeforeMonth(x.y, x.m) + x.d - 1

\* dates is day, day+1, ..., endDate: increasing, consecutive, no duplicate
IsInclusiveRange(dates, day, endDate) ==
    /\ Len(dates) = DayNumber(endDate) - DayNumber(day) + 1
    /\ \A i \in 1..Len(dates) : DayNumber(dates[i]) = DayNumber(day) + i - 1

\* C3: for every valid (day, endDay) with endDay >= day, endDay = day
\* included, _get_date_range returns exactly (endDay - day).days + 1 dates:
\* day, day+1, ..., endDay, increasing, consecutive, without gap or duplicate.
C3_InclusiveRange ==
    (/\ drPc = "done"
     /\ ValidPair(drDay, drEnd)
     /\ ~DateLess(AsDate(drEnd), AsDate(drDay)))
    => (/\ drResult.tag = "list"
        /\ IsInclusiveRange(drResult.v, AsDate(drDay), AsDate(drEnd)))

\* The part of C3 the code keeps: endDay strictly after day.
DateRangeStrictlyAfter ==
    (/\ drPc = "done"
     /\ ValidPair(drDay, drEnd)
     /\ DateLess(AsDate(drDay), AsDate(drEnd)))
    => (/\ drResult.tag = "list"
        /\ IsInclusiveRange(drResult.v, AsDate(drDay), AsDate(drEnd)))

\* C4: for every valid (day, endDay) with endDay strictly before day,
\* _get_date_range returns the sequence holding only day: endDay is not in
\* it, and no error is returned.
C4_EndBeforeDayIsSingleDay ==
    (/\ drPc = "done"
     /\ ValidPair(drDay, drEnd)
     /\ DateLess(AsDate(drEnd), AsDate(drDay)))
    => (/\ drResult.tag = "list"
        /\ drResult.v = <<AsDate(drDay)>>)

\* What the code returns there: day followed by endDay.
DateRangeEndBeforeDay ==
    (/\ drPc = "done"
     /\ ValidPair(drDay, drEnd)
     /\ ~DateLess(AsDate(drDay), AsDate(drEnd)))
    => drResult = PyList(<<AsDate(drDay), AsDate(drEnd)>>)

-----------------------------------------------------------------------------
(* Processed_Days: the statements it builds and the database that runs them. *)

\* Table.__init__ always leaves an Engine in self._engine (create_engine
\* returns one or raises), and nothing reassigns it.
EngineIsValid == TRUE

\* Processed_Days.__init__: self._index_col = ""
ProcessedDaysIndexCol == ""

\* the columns of processed_days: day DATE PRIMARY KEY, row_id INTEGER
ProcessedDaysColumns == {"day", "row_id"}

\* "".join([str(date.year), "/", str(date.month), "/", str(date.day)])
SqlDateText(x) == Str(x.y) \o "/" \o Str(x.m) \o "/" \o Str(x.d)

\* A DATE literal 'Y/M/D' as the database reads it.
SqlDateValue(s) ==
    LET i == IndexOf(s, "/")
        r == SubSeq(s, i + 1, Len(s))
        j == IndexOf(r, "/")
    IN  [y |-> NatOf(SubSeq(s, 1, i - 1)),
         m |-> NatOf(SubSeq(r, 1, j - 1)),
         d |-> NatOf(SubSeq(r, j + 1, Len(r)))]

SqlValues(dates) == [i \in 1..Len(dates) |-> SqlDateText(dates[i])]

\* INSERT INTO <table> (<index_col>) VALUES (..), (..) ON CONFLICT DO NOTHING;
InsertSql(dates) ==
    [verb |-> "INSERT", col |-> ProcessedDaysIndexCol, values |-> SqlValues(dates)]

\* DELETE FROM <table> WHERE <index_col> IN (.., ..);
DeleteSql(dates) ==
    [verb |-> "DELETE", col |-> ProcessedDaysIndexCol, values |-> SqlValues(dates)]

\* SELECT MAX(<index_col>) FROM <table>;
MaxSql == [verb |-> "MAX", col |-> ProcessedDaysIndexCol, values |-> <<>>]

\* conn.execute(sql) raises SQLAlchemyError when the database cannot be
\* reached, or when it rejects the statement: a statement that names no
\* column of the table ("()" , "WHERE  IN", "MAX()") is rejected.
ExecuteFails(sql, dbUp) == ~dbUp \/ sql.col \notin ProcessedDaysColumns

SqlDates(sql) == { SqlDateValue(sql.values[i]) : i \in 1..Len(sql.values) }

\* the rows of the table after the statement ran
RowsAfter(sql, rows) ==
    IF sql.verb = "INSERT" THEN rows \cup SqlDates(sql)        \* ON CONFLICT DO NOTHING
    ELSE IF sql.verb = "DELETE" THEN rows \ SqlDates(sql)
    ELSE rows

RowLess(a, b) == DateLess(a, b)

\* value.first()[0] of SELECT MAX: the greatest day, NULL on an empty table
MaxRow(rows) ==
    IF rows = {} THEN PyNone
    ELSE LET x == CHOOSE r \in rows : \A q \in rows : ~RowLess(r, q)
         IN  PyDate("date", x.y, x.m, x.d)

\* Processed_Days.insert and Processed_Days.delete share their shape:
\* the pair <<returned value, rows afterwards>>.
RangeStatement(makeSql(_), day, endDate, dbUp, rows) ==
    LET dates == GetDateRange(day, endDate)
    IN  IF ~EngineIsValid THEN <<PyBool(FALSE), rows>>
        ELSE IF dates.tag = "raise" THEN <<dates, rows>>
        ELSE IF dates.tag = "None" THEN <<PyBool(FALSE), rows>>
        ELSE IF ExecuteFails(makeSql(dates.v), dbUp) THEN <<PyBool(FALSE), rows>>
        ELSE <<PyBool(TRUE), RowsAfter(makeSql(dates.v), rows)>>

InsertOutcome(day, endDate, dbUp, rows) ==
    RangeStatement(InsertSql, day, endDate, dbUp, rows)

DeleteOutcome(day, endDate, dbUp, rows) ==
    RangeStatement(DeleteSql, day, endDate, dbUp, rows)

\* Processed_Days.get_latest_day: None when execute raised, otherwise
\* value.first()[0]
LatestDayOutcome(dbUp, rows) ==
    IF ExecuteFails(MaxSql, dbUp) THEN PyNone ELSE MaxRow(rows)

-----------------------------------------------------------------------------
(* SpecDays: insert, delete and get_latest_day called in any order. *)

Row(x) == [y |-> x.y, m |-> x.m, d |-> x.d]

\* the day and end_date arguments tried: the days around the leap day
RangeDates == { AddDays(PyDate("date", 2020, 2, 27), k) : k \in 0..MaxOffset }

\* the days a table may hold when the program starts
StoreDates == { Row(AddDays(PyDate("date", 2020, 2, 27), k)) : k \in 1..MaxOffset }

DayArgs == RangeDates \cup {PyStr("2020-02-28"), PyStr("2020-02-30")}

EndArgs == RangeDates \cup {PyNone, PyStr("2020-02-28")}

InitDays ==
    /\ stored \in SUBSET StoreDates
    /\ pdOp = "new" /\ pdDay = PyNone /\ pdEnd = PyNone
    /\ pdDbUp = TRUE /\ pdResult = PyNone /\ pdBefore = stored
    /\ IdleCli /\ IdleDates /\ IdleTable /\ IdleCreate

Insert ==
    \E day \in DayArgs, endDate \in EndArgs, dbUp \in BOOLEAN :
        LET outcome == InsertOutcome(day, endDate, dbUp, stored)
        IN  /\ pdOp' = "insert" /\ pdDay' = day /\ pdEnd' = endDate
            /\ pdDbUp' = dbUp /\ pdBefore' = stored
            /\ pdResult' = outcome[1]
            /\ stored' = outcome[2]
            /\ UNCHANGED <<cliVars, dateVars, tableVars, createVars>>

Delete ==
    \E day \in DayArgs, endDate \in EndArgs, dbUp \in BOOLEAN :
        LET outcome == DeleteOutcome(day, endDate, dbUp, stored)
        IN  /\ pdOp' = "delete" /\ pdDay' = day /\ pdEnd' = endDate
            /\ pdDbUp' = dbUp /\ pdBefore' = stored
            /\ pdResult' = outcome[1]
            /\ stored' = outcome[2]
            /\ UNCHANGED <<cliVars, dateVars, tableVars, createVars>>

GetLatestDay ==
    \E dbUp \in BOOLEAN :
        /\ pdOp' = "get_latest_day" /\ pdDay' = PyNone /\ pdEnd' = PyNone
        /\ pdDbUp' = dbUp /\ pdBefore' = stored
        /\ pdResult' = LatestDayOutcome(dbUp, stored)
        /\ UNCHANGED <<stored, cliVars, dateVars, tableVars, createVars>>

NextDays == Insert \/ Delete \/ GetLatestDay

SpecDays == InitDays /\ [][NextDays]_vars

-----------------------------------------------------------------------------
(* Reading the store: what the claims about insert, delete and           *)
(* get_latest_day speak of.                                               *)

\* the calendar dates of the materialized range of the last call
RangeRows == { Row(GetDateRange(pdDay, pdEnd).v[i]) :
                 i \in 1..Len(GetDateRange(pdDay, pdEnd).v) }

\* the last call's range is well formed: _get_date_range returned a list
RangeWellFormed == GetDateRange(pdDay, pdEnd).tag = "list"

\* C5: insert never fails because of the dates already stored: when the
\* range is well formed and the database can be reached, insert returns
\* success and the stored set afterwards is the set before united with the
\* range (so two overlapping inserts leave S \cup A \cup B, one record per date).
C5_InsertIdempotent ==
    (pdOp = "insert" /\ RangeWellFormed /\ pdDbUp)
    => (pdResult = PyBool(TRUE) /\ stored = pdBefore \cup RangeRows)

\* C6: get_latest_day has three outcomes a caller can tell apart by the
\* returned value: the greatest stored date on a non-empty store, the
\* "no data" value None on an empty one, and an error value, never equal
\* to the empty-store value, when the statement could not be executed.
C6_LatestDayThreeOutcomes ==
    pdOp = "get_latest_day"
    => (/\ (pdDbUp /\ pdBefore # {}) => pdResult = MaxRow(pdBefore)
        /\ (pdDbUp /\ pdBefore = {}) => pdResult = PyNone
        /\ ~pdDbUp => pdResult # PyNone)

\* The part of C6 that alone fails whatever statement is sent: a database
\* that cannot be reached gives the empty-store value.
LatestDayErrorIsNotNone ==
    (pdOp = "get_latest_day" /\ ~pdDbUp) => pdResult # PyNone

\* C8: delete of a well-formed range returns success when the database can
\* be reached, even when no date of the range is stored, and leaves exactly
\* the dates outside the range; it returns failure only for a malformed
\* range or an execution failure, and then the stored set is unchanged.
C8_DeleteFrame ==
    pdOp = "delete"
    => (/\ (RangeWellFormed /\ pdDbUp)
              => (pdResult = PyBool(TRUE) /\ stored = pdBefore \ RangeRows)
        /\ pdResult = PyBool(FALSE)
              => (stored = pdBefore /\ (~pdDbUp \/ ~RangeWellFormed)))

\* What the code does: no call changes the table, and no insert or delete
\* returns success.
StoreNeverChanges ==
    /\ stored = pdBefore
    /\ pdOp \in {"insert", "delete"} => pdResult # PyBool(TRUE)
    /\ pdOp = "get_latest_day" => pdResult = PyNone

-----------------------------------------------------------------------------
(* Table.get_full_table on the two concrete stores. *)

Stores == {"Flagged_Data", "Processed_Days"}

\* self._index_col as each __init__ sets it
IndexColOf(store) ==
    IF store = "Flagged_Data" THEN PyNone ELSE PyStr(ProcessedDaysIndexCol)

\* self._expected_cols as each __init__ sets it: a set in Flagged_Data,
\* a list in Processed_Days
ExpectedColsOf(store) ==
    IF store = "Flagged_Data" THEN PySet({"flag_id", "row_id"})
    ELSE PyList(<<"day", "row_id">>)

\* a != b of Python on sets and lists: a set never equals a list
PyNotEqual(a, b) == a.tag # b.tag \/ a.v # b.v

PyDataFrame(cols) == [tag |-> "DataFrame", columns |-> cols]

\* pandas.read_sql(sql, engine, index_col): the index column leaves the
\* frame's columns; naming an index column the result lacks is a KeyError.
ReadSql(live, indexCol) ==
    IF indexCol.tag = "None" THEN PyDataFrame(live)
    ELSE IF indexCol.v \in live THEN PyDataFrame(live \ {indexCol.v})
    ELSE PyRaise("KeyError")

\* the column check at the end of get_full_table
ColumnsMismatch(df, expected) == PyNotEqual(PySet(df.columns), expected)

GetFullTable(store, live, readOk) ==
    IF ~EngineIsValid THEN PyNone
    ELSE IF ~readOk THEN PyNone              \* SQLAlchemyError or ValueError
    ELSE LET df == ReadSql(live, IndexColOf(store))
         IN  IF df.tag = "raise" THEN df     \* KeyError is not caught
             ELSE IF ColumnsMismatch(df, ExpectedColsOf(store)) THEN PyNone
             ELSE df

LiveColumns == {"flag_id", "row_id", "day", "service_key"}

InitTable ==
    /\ tbStore \in Stores
    /\ tbLive \in SUBSET LiveColumns
    /\ tbReadOk \in BOOLEAN
    /\ tbPc = "call"
    /\ tbResult = PyNone
    /\ IdleCli /\ IdleDates /\ IdleStore /\ IdleCreate

CallGetFullTable ==
    /\ tbPc = "call"
    /\ tbResult' = GetFullTable(tbStore, tbLive, tbReadOk)
    /\ tbPc' = "done"
    /\ UNCHANGED <<tbStore, tbLive, tbReadOk, cliVars, dateVars, storeVars, createVars>>

NextTable == CallGetFullTable

SpecTable == InitTable /\ [][NextTable]_vars

\* the declared expected columns as a set of names
ExpectedNames(store) ==
    LET e == ExpectedColsOf(store)
    IN  IF e.tag = "set" THEN e.v ELSE { e.v[i] : i \in 1..Len(e.v) }

\* C7: for each concrete store, get_full_table fails (returns the failure
\* value, or does not return at all) exactly when the set of columns read
\* differs from the declared expected columns, and returns the loaded
\* table whenever the two sets are equal.
C7_ExactColumnSet ==
    (tbPc = "done" /\ tbReadOk)
    => (/\ tbResult.tag # "DataFrame" <=> tbLive # ExpectedNames(tbStore)
        /\ tbLive = ExpectedNames(tbStore) => tbResult = PyDataFrame(tbLive))

\* C7 holds of Flagged_Data, whose expected columns are a set.
FlaggedDataExactColumnSet ==
    (tbPc = "done" /\ tbReadOk /\ tbStore = "Flagged_Data")
    => (/\ tbResult = PyNone <=> tbLive # ExpectedNames(tbStore)
        /\ tbLive = ExpectedNames(tbStore) => tbResult = PyDataFrame(tbLive))

-----------------------------------------------------------------------------
(* Table.create_table and Table.create_schema on the two concrete stores. *)

\* The longest run of create_table calls followed.
MaxCreateCalls == 3

\* "CREATE SCHEMA IF NOT EXISTS <schema>;"
SchemaSql == [kind |-> "schema", store |-> "", wellFormed |-> TRUE]

\* self._creation_sql as each __init__ builds it.  The statement of
\* Processed_Days ends its column list with a bare "service_", a column
\* without a type, which the database cannot parse.
CreationSqlOf(store) ==
    [kind |-> "table", store |-> store, wellFormed |-> store # "Processed_Days"]

\* conn.execute(sql) inside "with self._engine.connect() as conn": TRUE when
\* no SQLAlchemyError is raised.  dbOk is the database's answer to a
\* statement it can parse (FALSE: no connection, no permission, a missing
\* referenced table); a table cannot be created in a schema that is absent.
ExecuteOk(sql, dbOk, schemaExists) ==
    /\ dbOk
    /\ sql.wellFormed
    /\ sql.kind = "table" => schemaExists

Executed(sql, ok) == [sql |-> sql, ok |-> ok]

\* create_schema(): the value returned and the statements executed
CreateSchema(engine, dbOk, schemaExists) ==
    IF ~engine THEN [ret |-> PyBool(FALSE), executed |-> <<>>]
    ELSE LET ok == ExecuteOk(SchemaSql, dbOk, schemaExists)
         IN  [ret |-> PyBool(ok), executed |-> <<Executed(SchemaSql, ok)>>]

\* CREATE ... IF NOT EXISTS that ran without error leaves the object there
SchemaAfter(schemaExists, ok) == schemaExists \/ ok

TablesAfter(tables, store, ok) == IF ok THEN tables \cup {store} ELSE tables

\* create_table's test of create_schema's return value, with the test
\* dropped
SchemaFailedIgnored(ret) == FALSE

\* "if not self.create_schema():"
SchemaFailed(ret) == ret # PyBool(TRUE)

\* the database as a call may find it: tables live inside the schema
DbStates ==
    { d \in [schema : BOOLEAN, tables : SUBSET Stores] :
        d.tables # {} => d.schema }

InitCreate ==
    /\ ctStore \in Stores
    /\ ctEngine \in BOOLEAN
    /\ \E d \in DbStates : dbSchema = d.schema /\ dbTables = d.tables
    /\ ctPc = "call"
    /\ ctExecuted = <<>>
    /\ ctSchemaRet = PyNone
    /\ ctResult = PyNone
    /\ ctCount = 1
    /\ IdleCli /\ IdleDates /\ IdleStore /\ IdleTable

\* lines 131-133: "if self._engine is None: return False"
CreateTableEngineCheck ==
    /\ ctPc = "call"
    /\ IF ~ctEngine
       THEN ctResult' = PyBool(FALSE) /\ ctPc' = "done"
       ELSE ctResult' = ctResult /\ ctPc' = "schema"
    /\ UNCHANGED <<ctStore, ctEngine, ctExecuted, ctSchemaRet, ctCount,
                   dbSchema, dbTables>>
    /\ UNCHANGED <<cliVars, dateVars, storeVars, tableVars>>

\* lines 135-137: the call of create_schema and the test of what it returned
CreateTableSchema ==
    /\ ctPc = "schema"
    /\ \E dbOk \in BOOLEAN :
        LET r == CreateSchema(ctEngine, dbOk, dbSchema)
        IN  /\ ctExecuted' = ctExecuted \o r.executed
            /\ ctSchemaRet' = r.ret
            /\ dbSchema' = SchemaAfter(dbSchema, r.ret = PyBool(TRUE))
            /\ IF SchemaFailed(r.ret)
               THEN ctResult' = PyBool(FALSE) /\ ctPc' = "done"
               ELSE ctResult' = ctResult /\ ctPc' = "create"
    /\ UNCHANGED <<ctStore, ctEngine, ctCount, dbTables>>
    /\ UNCHANGED <<cliVars, dateVars, storeVars, tableVars>>

\* lines 139-150: conn.execute(self._creation_sql) and the return
CreateTableExecute ==
    /\ ctPc = "create"
    /\ \E dbOk \in BOOLEAN :
        LET sql == CreationSqlOf(ctStore)
            ok  == ExecuteOk(sql, dbOk, dbSchema)
        IN  /\ ctExecuted' = Append(ctExecuted, Executed(sql, ok))
            /\ dbTables' = TablesAfter(dbTables, ctStore, ok)
            /\ ctResult' = PyBool(ok)
            /\ ctPc' = "done"
    /\ UNCHANGED <<ctStore, ctEngine, ctSchemaRet, ctCount, dbSchema>>
    /\ UNCHANGED <<cliVars, dateVars, storeVars, tableVars>>

\* a caller starts create_table again, on either store
CreateTableCall ==
    /\ ctPc = "done"
    /\ ctCount < MaxCreateCalls
    /\ ctStore' \in Stores
    /\ ctEngine' \in BOOLEAN
    /\ ctPc' = "call"
    /\ ctExecuted' = <<>>
    /\ ctSchemaRet' = PyNone
    /\ ctResult' = PyNone
    /\ ctCount' = ctCount + 1
    /\ UNCHANGED <<dbSchema, dbTables>>
    /\ UNCHANGED <<cliVars, dateVars, storeVars, tableVars>>

NextCreate ==
    \/ CreateTableEngineCheck
    \/ CreateTableSchema
    \/ CreateTableExecute
    \/ CreateTableCall

SpecCreate == InitCreate /\ [][NextCreate]_vars

\* the statements one call of create_table may execute, in order
CreateTablePlan == <<SchemaSql, CreationSqlOf(ctStore)>>

\* C11: in every call of create_table the statements executed are, in
\* order and each at most once, the schema statement and then the store's
\* creation statement; create_schema has returned before the creation
\* statement is executed, and the creation statement is executed only when
\* create_schema returned success.  With no engine nothing is executed and
\* the call returns failure; a statement that failed is the last one of the
\* call and the call returns failure; the call returns success only if both
\* statements were executed without error.
C11_SchemaBeforeCreation ==
    /\ Len(ctExecuted) <= 2
    /\ \A i \in 1..Len(ctExecuted) : ctExecuted[i].sql = CreateTablePlan[i]
    /\ (ctEngine /\ ctPc \in {"create", "done"}) => ctSchemaRet.tag = "bool"
    /\ Len(ctExecuted) = 2 =>
          (ctExecuted[1].ok /\ ctSchemaRet = PyBool(TRUE))
    /\ ~ctEngine => ctExecuted = <<>>
    /\ (ctPc = "done" /\ ~ctEngine) => ctResult = PyBool(FALSE)
    /\ \A i \in 1..Len(ctExecuted) :
          ~ctExecuted[i].ok =>
              (i = Len(ctExecuted) /\ (ctPc = "done" => ctResult = PyBool(FALSE)))
    /\ ctPc = "done" => ctResult \in {PyBool(TRUE), PyBool(FALSE)}
    /\ ctResult = PyBool(TRUE) =>
          (/\ ctPc = "done"
           /\ Len(ctExecuted) = 2
           /\ ctExecuted[1].ok /\ ctExecuted[2].ok)

\* a call whose schema statement failed has returned
C11_Witness ==
    /\ ctPc = "done" /\ ctEngine
    /\ ctExecuted = <<Executed(SchemaSql, FALSE)>>
    /\ ctResult = PyBool(FALSE)

\* create_table returns success on Flagged_Data ...
CreateTableSucceeds ==
    /\ ctPc = "done" /\ ctResult = PyBool(TRUE) /\ Len(ctExecuted) = 2

\* ... and never on Processed_Days, whose creation statement cannot parse
ProcessedDaysNeverCreated ==
    (ctStore = "Processed_Days" /\ ctPc = "done") => ctResult = PyBool(FALSE)

-----------------------------------------------------------------------------
(* ArgInterface: the typed argument parsers. *)

\* truth value of a Python value, as `if x:` takes it
Truthy(x) ==
    CASE x.tag = "None" -> FALSE
      [] x.tag = "bool" -> x.v
      [] x.tag = "str"  -> x.v # ""
      [] x.tag = "int"  -> x.v # 0
      [] OTHER          -> TRUE

\* _service_date: strptime(arg, "%Y-%m-%d"); PyNone is ArgumentTypeError
ServiceDate(arg) == StrptimeDate(arg)

\* _service_year: strptime(arg, "%Y")
ServiceYear(arg) == StrptimeYear(arg)

PeriodNames == <<"first", "second", "third">>

\* _service_period: int(arg) in [1, 2, 3], else names.index(arg) + 1
ServicePeriod(arg) ==
    LET p == IntOf(arg)
    IN  IF p.tag = "int" /\ p.v \in {1, 2, 3} THEN p
        ELSE IF \E i \in 1..3 : PeriodNames[i] = arg
             THEN PyInt(CHOOSE i \in 1..3 : PeriodNames[i] = arg)
             ELSE PyNone

\* _limit: int(arg) > 0
Limit(arg) ==
    LET lim == IntOf(arg)
    IN  IF lim.tag = "int" /\ lim.v > 0 THEN lim ELSE PyNone

\* the limit _handle_flag_query falls back on
DefaultLimit == 100

\* the type= of each add_argument, by destination
Convert(dest, arg) ==
    CASE dest \in {"date_start", "date_end"} -> ServiceDate(arg)
      [] dest = "limit"                      -> Limit(arg)
      [] dest = "row"                        -> IntOf(arg)
      [] dest = "year"                       -> ServiceYear(arg)
      [] dest = "service_period"             -> ServicePeriod(arg)
      [] OTHER                               -> PyStr(arg)

-----------------------------------------------------------------------------
(* ArgInterface._create_parser and argparse's parse_args. *)

\* the add_argument calls, in order
ArgOptions == <<
    [dest |-> "daily",          short |-> "",   long |-> "--daily",          action |-> "store_true"],
    [dest |-> "date_start",     short |-> "",   long |-> "--date-start",     action |-> "store"],
    [dest |-> "date_end",       short |-> "",   long |-> "--date-end",       action |-> "store"],
    [dest |-> "select",         short |-> "-s", long |-> "--select",         action |-> "store_true"],
    [dest |-> "flag",           short |-> "-f", long |-> "--flag",           action |-> "store"],
    [dest |-> "limit",          short |-> "-l", long |-> "--limit",          action |-> "store"],
    [dest |-> "row",            short |-> "-r", long |-> "--row",            action |-> "store"],
    [dest |-> "year",           short |-> "-y", long |-> "--year",           action |-> "store"],
    [dest |-> "service_period", short |-> "-p", long |-> "--service-period", action |-> "store"] >>

Dests == { ArgOptions[i].dest : i \in 1..Len(ArgOptions) }

OptionStrings ==
    { ArgOptions[i].long : i \in 1..Len(ArgOptions) }
    \cup { ArgOptions[i].short : i \in { j \in 1..Len(ArgOptions) : ArgOptions[j].short # "" } }

OptionOf(str) ==
    ArgOptions[CHOOSE i \in 1..Len(ArgOptions) :
                  ArgOptions[i].long = str \/ ArgOptions[i].short = str]

\* _is_present(args, short, long); short = "" stands for None
IsPresent(a, short, long) ==
    IF short = ""
    THEN \E i \in 1..Len(a) : StartsWith(a[i], long)
    ELSE \E i \in 1..Len(a) : StartsWith(a[i], short) \/ StartsWith(a[i], long)

\* the word _create_parser scans the arguments for to find a row id
RowScanWord == "--row_id"

\* required= of each add_argument, computed from the raw argument list
Required(dest, a) ==
    LET daily == IsPresent(a, "", "--daily")
        query == IsPresent(a, "-s", "--select")
        flag  == IsPresent(a, "-f", "--flag")
        row   == IsPresent(a, "-r", RowScanWord)
    IN  CASE dest = "daily"          -> daily /\ Len(a) = 1
          [] dest = "date_start"     -> ~daily /\ ~query /\ IsPresent(a, "", "--date-end")
          [] dest = "date_end"       -> ~daily /\ ~query /\ IsPresent(a, "", "--date-start")
          [] dest = "select"         -> flag \/ row
          [] dest = "flag"           -> ~daily /\ query /\ ~row
          [] dest = "limit"          -> FALSE
          [] dest = "row"            -> ~daily /\ query /\ ~flag
          [] dest = "year"           -> ~daily /\ query /\ row /\ ~flag
          [] dest = "service_period" -> ~daily /\ query /\ row /\ ~flag

NoMatch == [ok |-> FALSE, dest |-> "", explicit |-> PyNone]

\* argparse's reading of one argument string: the option it names and the
\* value joined to it ("--row=5", "-r5", "-r=5"), with unique prefixes of
\* long options accepted.  Joined short flags ("-sf") are not modelled.
MatchOption(str) ==
    LET eq     == IndexOf(str, "=")
        head   == IF eq > 0 THEN SubSeq(str, 1, eq - 1) ELSE str
        tail   == IF eq > 0 THEN PyStr(SubSeq(str, eq + 1, Len(str))) ELSE PyNone
        abbrev == { o \in OptionStrings : StartsWith(o, head) }
    IN  IF ~StartsWith(str, "-") \/ Len(str) = 1 THEN NoMatch
        ELSE IF str \in OptionStrings
             THEN [ok |-> TRUE, dest |-> OptionOf(str).dest, explicit |-> PyNone]
        ELSE IF eq > 0 /\ head \in OptionStrings
             THEN [ok |-> TRUE, dest |-> OptionOf(head).dest, explicit |-> tail]
        ELSE IF StartsWith(str, "--")
             THEN IF Cardinality(abbrev) = 1
                  THEN [ok |-> TRUE, dest |-> OptionOf(CHOOSE o \in abbrev : TRUE).dest,
                        explicit |-> tail]
                  ELSE NoMatch
        ELSE IF SubSeq(str, 1, 2) \in OptionStrings
             THEN [ok |-> TRUE, dest |-> OptionOf(SubSeq(str, 1, 2)).dest,
                   explicit |-> PyStr(SubSeq(str, 3, Len(str)))]
        ELSE NoMatch

ActionOf(dest) ==
    ArgOptions[CHOOSE i \in 1..Len(ArgOptions) : ArgOptions[i].dest = dest].action

\* the namespace before any argument is read
EmptyNamespace ==
    [d \in Dests |-> IF ActionOf(d) = "store_true" THEN PyBool(FALSE) ELSE PyNone]

\* ReadOne with a typed parser that gives None instead of raising
\* ArgumentTypeError: the ill-formed value is stored and parsing goes on.
ReadOneLenient(str, acc) ==
    LET m == MatchOption(str)
    IN  IF ~acc.ok \/ ~m.ok THEN [acc EXCEPT !.ok = FALSE]
        ELSE IF ActionOf(m.dest) = "store_true"
             THEN IF m.explicit.tag # "None" THEN [acc EXCEPT !.ok = FALSE]
                  ELSE [acc EXCEPT !.ns[m.dest] = PyBool(TRUE),
                                   !.seen = acc.seen \cup {m.dest}]
        ELSE IF m.explicit.tag = "None" THEN [acc EXCEPT !.ok = FALSE]
        ELSE [acc EXCEPT !.ns[m.dest] = Convert(m.dest, m.explicit.v),
                         !.seen = acc.seen \cup {m.dest}]

\* One argument string read into the namespace; ok = FALSE is parser.error.
\* Every argument string tried starts with "-", so an option that needs a
\* value and has none joined to it finds no value in the next string.
ReadOne(str, acc) ==
    LET m == MatchOption(str)
        v == Convert(m.dest, m.explicit.v)
    IN  IF ~acc.ok \/ ~m.ok THEN [acc EXCEPT !.ok = FALSE]
        ELSE IF ActionOf(m.dest) = "store_true"
             THEN IF m.explicit.tag # "None" THEN [acc EXCEPT !.ok = FALSE]
                  ELSE [acc EXCEPT !.ns[m.dest] = PyBool(TRUE),
                                   !.seen = acc.seen \cup {m.dest}]
        ELSE IF m.explicit.tag = "None" \/ v.tag = "None"
             THEN [acc EXCEPT !.ok = FALSE]
        ELSE [acc EXCEPT !.ns[m.dest] = v, !.seen = acc.seen \cup {m.dest}]

RECURSIVE ReadAll(_, _, _)
ReadAll(a, i, acc) ==
    IF i > Len(a) THEN acc ELSE ReadAll(a, i + 1, ReadOne(a[i], acc))

\* after the last argument: every required option must have been seen
RequiredSeen(a, seen) == \A d \in Dests : Required(d, a) => d \in seen

\* _parse_cl_args: [ok, ns]; ok = FALSE is argparse's exit with status 2
ParseClArgs(a) ==
    LET acc == ReadAll(a, 1, [ok |-> TRUE, ns |-> EmptyNamespace, seen |-> {}])
    IN  [ok |-> acc.ok /\ RequiredSeen(a, acc.seen), ns |-> acc.ns]

-----------------------------------------------------------------------------
(* ArgInterface.query_with_args, step by step. *)

\* a collaborator call: the function, its arguments, and (once it was
\* made) what it returned or raised
Call(fn, a) == [fn |-> fn, a |-> a, ret |-> PyNone]

Returned(c, r) == [c EXCEPT !.ret = r]

NoCall == [fn |-> "", a |-> <<>>, ret |-> PyNone]

\* what a query or process_data hands back: an opaque table
PyFrame(fn) == [tag |-> "df", by |-> fn]

\* what client.lookup_flag_id may give for a name: None, or a flag whose
\* id is one of 0 .. MaxFlagId
LookupResults == {PyNone} \cup { PyInt(i) : i \in 0..MaxFlagId }

\* _handle_flag_query: the store call it makes, if any
HandleFlagQuery(n) ==
    IF Truthy(n["flag"])
    THEN Call("query_by_flag_id",
              <<n["flag"], IF Truthy(n["limit"]) THEN n["limit"] ELSE PyInt(DefaultLimit)>>)
    ELSE IF Truthy(n["row"])
         THEN Call("query_by_row_id",
                   <<PyStr("service_periods"), n["row"], n["year"], n["service_period"]>>)
         ELSE NoCall

\* the if / elif chain of query_with_args after the flag was resolved
DispatchCall(n) ==
    IF Truthy(n["select"]) THEN HandleFlagQuery(n)
    ELSE IF Truthy(n["date_start"])
         THEN Call("process_data", <<n["date_start"], n["date_end"]>>)
    ELSE IF Truthy(n["daily"])
         THEN Call("process_next_day", <<PyBool(TRUE)>>)
    ELSE NoCall

\* the value query_with_args returns after the call returned
DispatchResult(c) ==
    IF c.fn \in {"query_by_flag_id", "query_by_row_id", "process_data"}
    THEN PyFrame(c.fn)
    ELSE PyNone

Finish(st, why, res) ==
    /\ pc' = "done" /\ status' = st /\ cause' = why /\ result' = res

\* args = self._parse_cl_args(args); nothing else has run yet
Parse ==
    /\ pc = "parse"
    /\ IF ~argsGiven \/ ~ParseClArgs(args).ok
       THEN /\ Finish("exit2", "parse", PyNone)
            /\ UNCHANGED ns
       ELSE /\ ns' = ParseClArgs(args).ns
            /\ pc' = "flag"
            /\ UNCHANGED <<status, cause, result>>
    /\ UNCHANGED <<args, argsGiven, calls, dateVars, storeVars, tableVars, createVars>>

\* if args.flag: ... client.lookup_flag_id(query) ...
LookupFlag ==
    /\ pc = "flag"
    /\ IF Truthy(ns["flag"])
       THEN \E found \in LookupResults \cup {PyRaise("ValueError")} :
              LET lookup == Call("lookup_flag_id", <<ns["flag"]>>)
              IN  IF found.tag = "raise"
                  THEN /\ calls' = Append(calls, Returned(lookup, found))
                       /\ Finish("exit2", "ValueError", PyNone)
                       /\ UNCHANGED ns
                  ELSE IF found.tag = "None"
                  THEN /\ calls' = calls \o <<Returned(lookup, found),
                                              Call("print_flag_names", <<>>)>>
                       /\ Finish("returned", "", PyNone)
                       /\ UNCHANGED ns
                  ELSE /\ calls' = Append(calls, Returned(lookup, found))
                       /\ ns' = [ns EXCEPT !["flag"] = found]
                       /\ pc' = "dispatch"
                       /\ UNCHANGED <<status, cause, result>>
       ELSE /\ pc' = "dispatch"
            /\ UNCHANGED <<ns, calls, status, cause, result>>
    /\ UNCHANGED <<args, argsGiven, dateVars, storeVars, tableVars, createVars>>

\* if args.select: ... elif args.date_start: ... elif args.daily: ... else
Dispatch ==
    /\ pc = "dispatch"
    /\ LET c == DispatchCall(ns)
       IN  IF c = NoCall
           THEN /\ Finish("returned", "", PyNone)
                /\ UNCHANGED calls
           ELSE \E raises \in BOOLEAN :
                  /\ IF raises
                     THEN /\ calls' = Append(calls, Returned(c, PyRaise("ValueError")))
                          /\ Finish("exit2", "ValueError", PyNone)
                     ELSE /\ calls' = Append(calls, Returned(c, DispatchResult(c)))
                          /\ Finish("returned", "", DispatchResult(c))
    /\ UNCHANGED <<args, argsGiven, ns, dateVars, storeVars, tableVars, createVars>>

-----------------------------------------------------------------------------
(* SpecCli: query_with_args run on every argument list tried. *)

\* the argument strings tried
Vocabulary == <<
    "--daily", "-s", "--select",
    "--flag=speed", "-fspeed", "--flag=",
    "-r5", "--row=5", "-r0", "--row_id=5",
    "--limit=5", "-l0",
    "--year=2020", "-y20",
    "--service-period=1", "-pfirst", "-p4",
    "--date-start=2020-01-01", "--date-end=2020-01-05", "--date-end=bad" >>

RECURSIVE Picks(_)
\* the increasing index lists of length <= n: neither the scan of
\* _create_parser nor the parser depends on the order of the arguments
Picks(n) ==
    IF n = 0 THEN {<<>>}
    ELSE Picks(n - 1) \cup
         { Append(pr[1], pr[2]) :
             pr \in { q \in Picks(n - 1) \X (1..Len(Vocabulary)) :
                        Len(q[1]) = n - 1 /\ (n = 1 \/ q[1][n - 1] < q[2]) } }

ArgLists == { [k \in 1..Len(l) |-> Vocabulary[l[k]]] : l \in Picks(MaxArgs) }

InitCli ==
    /\ \/ argsGiven = TRUE /\ args \in ArgLists
       \/ argsGiven = FALSE /\ args = <<>>
    /\ pc = "parse"
    /\ ns = EmptyNamespace
    /\ status = "running" /\ cause = "" /\ result = PyNone /\ calls = <<>>
    /\ IdleDates /\ IdleStore /\ IdleTable /\ IdleCreate

NextCli == Parse \/ LookupFlag \/ Dispatch

SpecCli == InitCli /\ [][NextCli]_vars

-----------------------------------------------------------------------------
(* Reading a run of query_with_args: what the claims about it speak of. *)

HasArg(str) == \E i \in 1..Len(args) : args[i] = str

\* some argument string of the list names the option with this destination
Gives(dest) ==
    \E i \in 1..Len(args) : MatchOption(args[i]).ok /\ MatchOption(args[i]).dest = dest

\* an argument string that is well formed on its own: it names an option,
\* and the value joined to it passes the option's type
ArgValid(str) ==
    LET m == MatchOption(str)
    IN  /\ m.ok
        /\ IF ActionOf(m.dest) = "store_true" THEN m.explicit.tag = "None"
           ELSE m.explicit.tag # "None" /\ Convert(m.dest, m.explicit.v).tag # "None"

AllArgsValid == \A i \in 1..Len(args) : ArgValid(args[i])

\* the value the list gives for a destination (the last one, if several)
ValueGiven(dest) ==
    LET i == CHOOSE k \in 1..Len(args) :
                /\ MatchOption(args[k]).ok /\ MatchOption(args[k]).dest = dest
                /\ \A j \in (k + 1)..Len(args) :
                      ~(MatchOption(args[j]).ok /\ MatchOption(args[j]).dest = dest)
    IN  Convert(dest, MatchOption(args[i]).explicit.v)

ExitedOnArguments == status = "exit2" /\ cause = "parse"

FnsCalled == { calls[i].fn : i \in 1..Len(calls) }

\* C1: --daily is accepted only as the sole argument: with any other
\* argument beside it the run exits with status 2 and no collaborator is
\* called; with --daily alone process_next_day(restart=True) is called
\* exactly once and nothing is returned.
C1_DailyOnlyAlone ==
    /\ (HasArg("--daily") /\ Len(args) >= 2)
          => (calls = <<>> /\ (pc = "done" => status = "exit2"))
    /\ (args = <<"--daily">> /\ pc = "done")
          => (/\ Len(calls) = 1
              /\ calls[1].fn = "process_next_day"
              /\ calls[1].a = <<PyBool(TRUE)>>
              /\ result = PyNone)

\* The half of C1 the code keeps: --daily alone.
DailyAloneRuns ==
    (args = <<"--daily">> /\ pc = "done")
    => (/\ Len(calls) = 1
        /\ calls[1].fn = "process_next_day"
        /\ calls[1].a = <<PyBool(TRUE)>>
        /\ result = PyNone)

\* the row lookup of C2: select, a row id, a year and a service period,
\* each well formed, and no flag
RowLookupArgs ==
    /\ AllArgsValid
    /\ Gives("select") /\ Gives("row") /\ Gives("year") /\ Gives("service_period")
    /\ ~Gives("flag")

\* C2: an argument list with select, a row id in either form (-r or
\* --row=<int>), a valid year and a valid service period, and no flag, is
\* accepted and query_by_row_id is called exactly once with that row, year
\* and service period; without the year or the service period the run
\* exits with status 2.
C2_RowLookup ==
    /\ (RowLookupArgs /\ pc = "done")
          => (/\ ~ExitedOnArguments
              /\ Len(calls) = 1
              /\ calls[1].fn = "query_by_row_id"
              /\ calls[1].a = <<PyStr("service_periods"), ValueGiven("row"),
                               ValueGiven("year"), ValueGiven("service_period")>>)
    /\ (/\ Gives("select") /\ Gives("row") /\ ~Gives("flag") /\ ~Gives("daily")
        /\ ~(Gives("year") /\ Gives("service_period"))
        /\ pc = "done")
          => ExitedOnArguments

\* The part of C2 the code keeps: the row given as -r<int>, not zero.
RowLookupShortForm ==
    (/\ RowLookupArgs /\ pc = "done"
     /\ \A i \in 1..Len(args) :
           MatchOption(args[i]).dest = "row" => StartsWith(args[i], "-r")
     /\ ValueGiven("row").v # 0)
    => (/\ ~ExitedOnArguments
        /\ Len(calls) = 1
        /\ calls[1].fn = "query_by_row_id"
        /\ calls[1].a = <<PyStr("service_periods"), ValueGiven("row"),
                         ValueGiven("year"), ValueGiven("service_period")>>)

\* the argument list is not acceptable: None instead of a list, an
\* argument string that is ill formed or names no option, or a required
\* option that is missing
ArgumentsRejected ==
    \/ ~argsGiven
    \/ ~AllArgsValid
    \/ \E d \in Dests : Required(d, args) /\ ~Gives(d)

\* C9: argument validation comes before every collaborator call: a run
\* whose arguments are rejected calls no collaborator at any point and ends
\* with exit status 2, and a run that ended with exit status 2 because of
\* its arguments has called none.
C9_ValidationBeforeCalls ==
    /\ ArgumentsRejected => (calls = <<>> /\ (pc = "done" => ExitedOnArguments))
    /\ ExitedOnArguments => (calls = <<>> /\ ArgumentsRejected)
    /\ pc = "parse" => calls = <<>>

\* C9's case: a flag query whose limit is ill formed has exited with
\* status 2; had parsing let it through, lookup_flag_id would have run.
C9_Witness ==
    /\ pc = "done" /\ ExitedOnArguments
    /\ HasArg("-s") /\ HasArg("--flag=speed") /\ HasArg("-l0")

\* the run is a flag-by-name query whose name was looked up
FlagLookedUp == Len(calls) >= 1 /\ calls[1].fn = "lookup_flag_id"

\* C10: in a flag-by-name query, when lookup_flag_id returns none the run
\* calls print_flag_names, returns nothing, does not exit with status 2 and
\* calls no query or processing collaborator; when the name resolves,
\* query_by_flag_id is called with the resolved id and the given limit, or
\* with 100 when no limit was given.
C10_FlagByName ==
    (pc = "done" /\ FlagLookedUp)
    => (/\ calls[1].ret.tag = "None"
            => (/\ Len(calls) = 2 /\ calls[2].fn = "print_flag_names"
                /\ status = "returned" /\ result = PyNone)
        /\ calls[1].ret.tag = "int"
            => (/\ Len(calls) = 2 /\ calls[2].fn = "query_by_flag_id"
                /\ calls[2].a = <<calls[1].ret,
                                 IF Gives("limit") THEN ValueGiven("limit")
                                 ELSE PyInt(DefaultLimit)>>))

\* The part of C10 the code keeps: the unresolved name, and the name that
\* resolves to an id other than 0.
FlagByNameNonZero ==
    (pc = "done" /\ FlagLookedUp)
    => (/\ calls[1].ret.tag = "None"
            => (/\ Len(calls) = 2 /\ calls[2].fn = "print_flag_names"
                /\ status = "returned" /\ result = PyNone)
        /\ (calls[1].ret.tag = "int" /\ calls[1].ret.v # 0)
            => (/\ Len(calls) = 2 /\ calls[2].fn = "query_by_flag_id"
                /\ calls[2].a = <<calls[1].ret,
                                 IF Gives("limit") THEN ValueGiven("limit")
                                 ELSE PyInt(DefaultLimit)>>))

=============================================================================
